---- MODULE Spec2Model ----
(***************************************************************************)
(* The write endpoints of routes/home.js (Users and Tasks with a two-way   *)
(* reference: User.pendingTasks <-> Task.assignedUser) as a state machine. *)
(* One action per request handler; a request runs to its response before  *)
(* the next one starts (non-overlapping requests).                         *)
(*                                                                         *)
(* The two collections are the Entity Store.  A document is stored with    *)
(* the field values the handler hands to the store; "" / absent            *)
(* assignedUser is the empty reference 0.  Ids are allocated fresh by the  *)
(* store and never reused; a client can only name ids that were already    *)
(* handed out, or an id that matches no document.                          *)
(***************************************************************************)
EXTENDS Integers, Sequences, FiniteSets, TLC

\* ---------------------------------------------------------------- bounds
MaxUsers == 2
MaxTasks == 2
MaxPending == 2
MaxRequests == 4

UserIds == 1..MaxUsers
TaskIds == 1..MaxTasks

\* ------------------------------------------------------- request values
\* the JavaScript values a request may carry in `completed`
BoolTrue == "true (boolean)"
BoolFalse == "false (boolean)"
StrTrue == "'true' (string)"
StrFalse == "'false' (string)"
Undefined == "undefined"
CompletedInputs == {BoolTrue, BoolFalse, StrTrue, StrFalse, Undefined}

\* absent string field of a body; "" is the empty string
Absent == "<absent>"
Unassigned == "unassigned"
Names == {"Alice", "Bob"}
RawEmails == {"a@x.com", "B@X.com "}
NumericDeadline == "1730421319000.0"
GarbageDeadline == "not a date"

\* dateCreated: the schema default taken when the document was created, and
\* a date a client puts in a body
CreatedNow == "Date.now() at creation"
ClientDate == "2001-01-01"

VARIABLES users, tasks, nextUser, nextTask, last, allOk, nreq, running

vars == <<users, tasks, nextUser, nextTask, last, allOk, nreq, running>>

\* ------------------------------------------------------------- helpers
Range(s) == {s[i] : i \in 1..Len(s)}

\* Array.prototype.includes
Includes(list, x) == \E i \in 1..Len(list) : list[i] = x

\* newTasks.filter(t => !oldTasks.includes(t))
FilterNotIn(list, other) == SelectSeq(list, LAMBDA t : ~Includes(other, t))

\* (mutant) the add appends without looking for the id
AppendAlways(list, x) == Append(list, x)

\* MongoDB $addToSet on an array field
AddToSet(list, x) == IF Includes(list, x) THEN list ELSE Append(list, x)

\* (mutant) removal by array index: only the first occurrence goes
PullFirstOnly(list, x) ==
    IF Includes(list, x)
    THEN LET i == CHOOSE k \in 1..Len(list) :
                    list[k] = x /\ \A j \in 1..(k - 1) : list[j] # x
         IN SubSeq(list, 1, i - 1) \o SubSeq(list, i + 1, Len(list))
    ELSE list

\* MongoDB $pull on an array field: every occurrence goes
Pull(list, x) == SelectSeq(list, LAMBDA t : t # x)

\* number of occurrences of x in list
Count(list, x) == Cardinality({i \in 1..Len(list) : list[i] = x})

\* UserSchema email: trim + lowercase
NormalizeEmail(e) ==
    CASE e = "a@x.com" -> "a@x.com"
      [] e = "B@X.com " -> "b@x.com"
      [] OTHER -> e

\* JavaScript truthiness of a `completed` value
Truthy(v) == v \in {BoolTrue, StrTrue, StrFalse}

\* POST /tasks: completedStatus = (req.body.completed === 'true')
CompletedOnCreate(v) == IF v = StrTrue THEN BoolTrue ELSE BoolFalse

\* PUT /tasks: a string is compared with 'true', anything else passes through
CompletedOnReplace(v) ==
    IF v \in {StrTrue, StrFalse}
    THEN (IF v = StrTrue THEN BoolTrue ELSE BoolFalse)
    ELSE v

\* POST /tasks deadline parsing: does the parsed value store as a Date?
DeadlineStoresOnCreate(d) == d = NumericDeadline

\* PUT /tasks deadline parsing: parseFloat, else the raw value goes to the store
DeadlineStoresOnReplace(d) == d = NumericDeadline

\* User.findByIdAndUpdate(id, {$addToSet: {pendingTasks: t}}): no document, no effect
UserAddToSet(us, id, t) ==
    IF id \in DOMAIN us
    THEN [us EXCEPT ![id].pendingTasks = AddToSet(@, t)]
    ELSE us

\* User.findByIdAndUpdate(id, {$pull: {pendingTasks: t}})
UserPull(us, id, t) ==
    IF id \in DOMAIN us
    THEN [us EXCEPT ![id].pendingTasks = Pull(@, t)]
    ELSE us

\* (mutant) the update also resets completed
TaskSetAssignmentResets(ts, ids, uid, uname) ==
    [t \in DOMAIN ts |->
        IF Includes(ids, t)
        THEN [ts[t] EXCEPT !.assignedUser = uid, !.assignedUserName = uname,
                           !.completed = BoolFalse]
        ELSE ts[t]]

\* Task.updateMany({_id: {$in: ids}}, {$set: {assignedUser, assignedUserName}})
TaskSetAssignment(ts, ids, uid, uname) ==
    [t \in DOMAIN ts |->
        IF Includes(ids, t)
        THEN [ts[t] EXCEPT !.assignedUser = uid, !.assignedUserName = uname]
        ELSE ts[t]]

\* remove a document from a collection
Without(coll, id) == [x \in DOMAIN coll \ {id} |-> coll[x]]

\* add a document to a collection
With(coll, id, doc) == [x \in DOMAIN coll \cup {id} |-> IF x = id THEN doc ELSE coll[x]]

NoDoc == [absent |-> TRUE]

\* no request is being answered
Idle == [op |-> "none"]

\* the response is recorded with the request it answers, the two
\* collections as the request found them, and whether it was a re-issue;
\* for a re-issue, also the status the first issue was answered with and
\* the collections as the first issue found them
Respond(op, id, body, status, result) ==
    /\ last' = [op |-> op, id |-> id, body |-> body, status |-> status,
                result |-> result,
                before |-> [users |-> users, tasks |-> tasks],
                retry |-> (last # Idle),
                after |-> IF last = Idle THEN 0 ELSE last.status,
                first |-> IF last = Idle
                          THEN [users |-> users, tasks |-> tasks]
                          ELSE last.before]
    /\ allOk' = (allOk /\ status < 400)
    /\ nreq' = nreq + 1
    /\ UNCHANGED running

\* ------------------------------------------------------ request bodies
\* ids of Tasks handed out so far (existing or deleted)
KnownTaskIds == 1..(nextTask - 1)

RECURSIVE SeqsUpTo(_, _)
SeqsUpTo(S, n) ==
    IF n = 0 THEN {<<>>}
    ELSE LET shorter == SeqsUpTo(S, n - 1)
         IN shorter \cup {Append(s, x) : s \in {q \in shorter : Len(q) = n - 1}, x \in S}

\* POST /users and PUT /users/:id bodies: {name, email, pendingTasks?}
\* (a body that lacks a required field is sent with no pendingTasks)
UserBodies ==
    {b \in [name : Names \cup {""},
            email : RawEmails \cup {""},
            pendingTasks : SeqsUpTo(KnownTaskIds, MaxPending)] :
        (b.name = "" \/ b.email = "") => b.pendingTasks = <<>>}

\* POST /tasks and PUT /tasks/:id bodies:
\* {name, deadline, completed?, assignedUser?, assignedUserName?, dateCreated?}
\* (a body that lacks a required field carries no optional field; a body
\* that carries dateCreated carries no other optional field)
TaskBodies ==
    {b \in [name : {"", "task"},
            deadline : {"", NumericDeadline, GarbageDeadline},
            completed : CompletedInputs,
            assignedUser : {0} \cup UserIds,
            assignedUserName : {Absent, "", Unassigned} \cup Names,
            dateCreated : {Absent, ClientDate}] :
        /\ (b.name = "" \/ b.deadline = "") =>
            /\ b.completed = Undefined
            /\ b.assignedUser = 0
            /\ b.assignedUserName = Absent
            /\ b.dateCreated = Absent
        /\ b.dateCreated # Absent =>
            /\ b.completed = Undefined
            /\ b.assignedUser = 0
            /\ b.assignedUserName = Absent}

\* ------------------------------------------------------------ POST /users
PostUser(b) ==
    /\ last = Idle
    /\ nreq < MaxRequests
    /\ nextUser <= MaxUsers
    /\ IF b.name = "" \/ b.email = ""
       THEN /\ Respond("PostUser", 0, b, 400, "MissingFields")
            /\ UNCHANGED <<users, tasks, nextUser, nextTask>>
       ELSE IF \E u \in DOMAIN users : users[u].email = NormalizeEmail(b.email)
       THEN \* newUser.save() rejects on the unique index
            /\ Respond("PostUser", 0, b, 400, "EmailInUse")
            /\ UNCHANGED <<users, tasks, nextUser, nextTask>>
       ELSE /\ users' = With(users, nextUser,
                             [name |-> b.name,
                              email |-> NormalizeEmail(b.email),
                              pendingTasks |-> b.pendingTasks,
                              dateCreated |-> CreatedNow])
            /\ nextUser' = nextUser + 1
            /\ Respond("PostUser", nextUser, b, 201, "Created")
            /\ UNCHANGED <<tasks, nextTask>>

\* -------------------------------------------------------- PUT /users/:id
\* addedTasks = newTasks.filter(t => !oldTasks.includes(t))
AddedTasks(newTasks, oldTasks) == FilterNotIn(newTasks, oldTasks)

\* removedTasks = oldTasks.filter(t => !newTasks.includes(t))
RemovedTasks(newTasks, oldTasks) == FilterNotIn(oldTasks, newTasks)

\* (mutant) only the first added id is looked up
CompletedAmongFirst(ts, ids) ==
    {t \in DOMAIN ts : Len(ids) > 0 /\ ids[1] = t /\ ts[t].completed = BoolTrue}

\* Task.find({_id: {$in: addedTasks}, completed: true})
CompletedAmong(ts, ids) ==
    {t \in DOMAIN ts : Includes(ids, t) /\ ts[t].completed = BoolTrue}

\* (mutant) the Tasks dropped from the list are left assigned
PutUserTasksAddedOnly(ts, id, newName, added, removed) ==
    IF Len(added) > 0 THEN TaskSetAssignment(ts, added, id, newName) ELSE ts

\* the two Task.updateMany calls, added first, then removed
PutUserTasks(ts, id, newName, added, removed) ==
    LET afterAdded == IF Len(added) > 0
                      THEN TaskSetAssignment(ts, added, id, newName)
                      ELSE ts
    IN IF Len(removed) > 0
       THEN TaskSetAssignment(afterAdded, removed, 0, Unassigned)
       ELSE afterAdded

\* the handler, from its first line to its response
PutUserHandler(id, b) ==
    /\ IF b.name = "" \/ b.email = ""
       THEN /\ Respond("PutUser", id, b, 400, "MissingFields")
            /\ UNCHANGED <<users, tasks, nextUser, nextTask>>
       ELSE IF id \notin DOMAIN users
       THEN /\ Respond("PutUser", id, b, 404, "UserNotFound")
            /\ UNCHANGED <<users, tasks, nextUser, nextTask>>
       ELSE
         LET oldUser == users[id]
             oldTasks == oldUser.pendingTasks
             newTasks == b.pendingTasks
             addedTasks == AddedTasks(newTasks, oldTasks)
             removedTasks == RemovedTasks(newTasks, oldTasks)
         IN IF Len(addedTasks) > 0 /\ CompletedAmong(tasks, addedTasks) # {}
            THEN /\ Respond("PutUser", id, b, 400, "CompletedInPending")
                 /\ UNCHANGED <<users, tasks, nextUser, nextTask>>
            ELSE
              /\ tasks' = PutUserTasks(tasks, id, b.name, addedTasks, removedTasks)
              /\ IF \E u \in DOMAIN users \ {id} :
                        users[u].email = NormalizeEmail(b.email)
                 THEN \* the replacement hits the unique index after the Task updates
                      /\ Respond("PutUser", id, b, 400, "EmailInUse")
                      /\ UNCHANGED <<users, nextUser, nextTask>>
                 ELSE /\ users' = [users EXCEPT ![id] =
                                     [name |-> b.name,
                                      email |-> NormalizeEmail(b.email),
                                      pendingTasks |-> newTasks,
                                      dateCreated |-> Absent]]
                      /\ Respond("PutUser", id, b, 200, "Replaced")
                      /\ UNCHANGED <<nextUser, nextTask>>

PutUser(id, b) ==
    /\ last = Idle
    /\ nreq < MaxRequests
    /\ PutUserHandler(id, b)

\* ----------------------------------------------------- DELETE /users/:id
\* the handler, from its first line to its response
DeleteUserHandler(id) ==
    /\ IF id \notin DOMAIN users
       THEN /\ Respond("DeleteUser", id, NoDoc, 404, "UserNotFound")
            /\ UNCHANGED <<users, tasks, nextUser, nextTask>>
       ELSE LET deletedUser == users[id]
            IN /\ users' = Without(users, id)
               /\ tasks' = IF Len(deletedUser.pendingTasks) > 0
                           THEN TaskSetAssignment(tasks, deletedUser.pendingTasks,
                                                  0, Unassigned)
                           ELSE tasks
               /\ Respond("DeleteUser", id, NoDoc, 204, "Deleted")
               /\ UNCHANGED <<nextUser, nextTask>>

DeleteUser(id) ==
    /\ last = Idle
    /\ nreq < MaxRequests
    /\ DeleteUserHandler(id)


\* ------------------------------------------- checks of the Task handlers
\* (mutant) the supplied name is not compared with the User's
CheckAssignedUserExistsOnly(us, b) ==
    IF b.assignedUser = 0 THEN "pass"
    ELSE IF b.assignedUser \notin DOMAIN us THEN "AssignedUserNotFound"
    ELSE "pass"

\* if (req.body.assignedUser): the User must exist and carry the supplied name
CheckAssignedUser(us, b) ==
    IF b.assignedUser = 0 THEN "pass"
    ELSE IF b.assignedUser \notin DOMAIN us THEN "AssignedUserNotFound"
    ELSE IF b.assignedUserName # us[b.assignedUser].name THEN "NameMismatch"
    ELSE "pass"

\* PUT /tasks/:id, no assignedUser:
\* if (req.body.assignedUserName && req.body.assignedUserName !== "unassigned")
CheckUnassignedName(b) ==
    IF /\ b.assignedUser = 0
       /\ b.assignedUserName \notin {Absent, ""}
       /\ b.assignedUserName # Unassigned
    THEN "NameNotUnassigned"
    ELSE "pass"

\* the status the handler answers a failed check with: 404 when the User is
\* missing, 400 for the two name checks
CheckStatus(check) == IF check = "AssignedUserNotFound" THEN 404 ELSE 400

\* (mutant) completed Tasks are not blocked
BlockedNever(oldTask) == FALSE

\* PUT /tasks/:id: if (oldTask.completed)
BlockedAsCompleted(oldTask) == Truthy(oldTask.completed)

\* ------------------------------------------------------------ POST /tasks
PostTask(b) ==
    /\ last = Idle
    /\ nreq < MaxRequests
    /\ nextTask <= MaxTasks
    /\ IF b.name = "" \/ b.deadline = ""
       THEN /\ Respond("PostTask", 0, b, 400, "MissingFields")
            /\ UNCHANGED <<users, tasks, nextUser, nextTask>>
       ELSE IF CheckAssignedUser(users, b) # "pass"
       THEN /\ Respond("PostTask", 0, b, CheckStatus(CheckAssignedUser(users, b)),
                    CheckAssignedUser(users, b))
            /\ UNCHANGED <<users, tasks, nextUser, nextTask>>
       ELSE IF ~DeadlineStoresOnCreate(b.deadline)
       THEN \* newTask.save() rejects the invalid Date
            /\ Respond("PostTask", 0, b, 400, "InvalidDeadline")
            /\ UNCHANGED <<users, tasks, nextUser, nextTask>>
       ELSE
         LET completedStatus == CompletedOnCreate(b.completed)
             validUserName == IF b.assignedUser # 0
                              THEN users[b.assignedUser].name
                              ELSE Unassigned
             savedTask == [completed |-> completedStatus,
                           assignedUser |-> b.assignedUser,
                           assignedUserName |-> validUserName,
                           dateCreated |-> CreatedNow]
         IN /\ tasks' = With(tasks, nextTask, savedTask)
            /\ nextTask' = nextTask + 1
            /\ users' = IF savedTask.assignedUser # 0 /\ ~Truthy(savedTask.completed)
                        THEN UserAddToSet(users, savedTask.assignedUser, nextTask)
                        ELSE users
            /\ Respond("PostTask", nextTask, b, 201, "Created")
            /\ UNCHANGED nextUser

\* -------------------------------------------------------- PUT /tasks/:id
\* (mutant) the id stays in the old user's list
PutTaskCase1NoPull(us, t, oldUserId, newUserId, nowCompleted) ==
    IF oldUserId # newUserId /\ newUserId # 0 /\ ~Truthy(nowCompleted)
    THEN UserAddToSet(us, newUserId, t)
    ELSE us

\* Case 1: user assignment changed
PutTaskCase1(us, t, oldUserId, newUserId, nowCompleted) ==
    IF oldUserId # newUserId
    THEN LET pulled == IF oldUserId # 0 THEN UserPull(us, oldUserId, t) ELSE us
         IN IF newUserId # 0 /\ ~Truthy(nowCompleted)
            THEN UserAddToSet(pulled, newUserId, t)
            ELSE pulled
    ELSE us

\* (mutant) a Task that became completed is not pulled from the list
PutTaskCase2NoPull(us, t, oldUserId, newUserId, wasCompleted, nowCompleted) ==
    IF wasCompleted # nowCompleted /\ (newUserId # 0 \/ oldUserId # 0)
    THEN LET relevantUserId == IF newUserId # 0 THEN newUserId ELSE oldUserId
         IN IF Truthy(nowCompleted)
            THEN us
            ELSE UserAddToSet(us, relevantUserId, t)
    ELSE us

\* Case 2: task status changed
PutTaskCase2(us, t, oldUserId, newUserId, wasCompleted, nowCompleted) ==
    IF wasCompleted # nowCompleted /\ (newUserId # 0 \/ oldUserId # 0)
    THEN LET relevantUserId == IF newUserId # 0 THEN newUserId ELSE oldUserId
         IN IF Truthy(nowCompleted)
            THEN UserPull(us, relevantUserId, t)
            ELSE UserAddToSet(us, relevantUserId, t)
    ELSE us

\* the handler, from its first line to its response
PutTaskHandler(id, b) ==
    /\ IF b.name = "" \/ b.deadline = ""
       THEN /\ Respond("PutTask", id, b, 400, "MissingFields")
            /\ UNCHANGED <<users, tasks, nextUser, nextTask>>
       ELSE IF CheckAssignedUser(users, b) # "pass"
       THEN /\ Respond("PutTask", id, b, CheckStatus(CheckAssignedUser(users, b)),
                    CheckAssignedUser(users, b))
            /\ UNCHANGED <<users, tasks, nextUser, nextTask>>
       ELSE IF CheckUnassignedName(b) # "pass"
       THEN /\ Respond("PutTask", id, b, CheckStatus(CheckUnassignedName(b)),
                    CheckUnassignedName(b))
            /\ UNCHANGED <<users, tasks, nextUser, nextTask>>
       ELSE IF id \notin DOMAIN tasks
       THEN /\ Respond("PutTask", id, b, 404, "TaskNotFound")
            /\ UNCHANGED <<users, tasks, nextUser, nextTask>>
       ELSE IF BlockedAsCompleted(tasks[id])
       THEN /\ Respond("PutTask", id, b, 400, "AlreadyCompleted")
            /\ UNCHANGED <<users, tasks, nextUser, nextTask>>
       ELSE
         LET oldTask == tasks[id]
             completedStatus == CompletedOnReplace(b.completed)
             oldUserId == oldTask.assignedUser
             newUserId == b.assignedUser
             wasCompleted == oldTask.completed
             nowCompleted == completedStatus
             afterCase1 == PutTaskCase1(users, id, oldUserId, newUserId, nowCompleted)
             afterCase2 == PutTaskCase2(afterCase1, id, oldUserId, newUserId,
                                        wasCompleted, nowCompleted)
         IN /\ users' = afterCase2
            /\ IF ~DeadlineStoresOnReplace(b.deadline)
               THEN \* the replacement fails to cast after the User updates
                    /\ Respond("PutTask", id, b, 400, "InvalidDeadline")
                    /\ UNCHANGED <<tasks, nextUser, nextTask>>
               ELSE /\ tasks' = [tasks EXCEPT ![id] =
                                    [completed |-> completedStatus,
                                     assignedUser |-> b.assignedUser,
                                     assignedUserName |-> b.assignedUserName,
                                     dateCreated |-> b.dateCreated]]
                    /\ Respond("PutTask", id, b, 200, "Replaced")
                    /\ UNCHANGED <<nextUser, nextTask>>

PutTask(id, b) ==
    /\ last = Idle
    /\ nreq < MaxRequests
    /\ PutTaskHandler(id, b)

\* ----------------------------------------------------- DELETE /tasks/:id
\* the handler, from its first line to its response
DeleteTaskHandler(id) ==
    /\ IF id \notin DOMAIN tasks
       THEN /\ Respond("DeleteTask", id, NoDoc, 404, "TaskNotFound")
            /\ UNCHANGED <<users, tasks, nextUser, nextTask>>
       ELSE LET deletedTask == tasks[id]
            IN /\ tasks' = Without(tasks, id)
               /\ users' = IF deletedTask.assignedUser # 0
                           THEN UserPull(users, deletedTask.assignedUser, id)
                           ELSE users
               /\ Respond("DeleteTask", id, NoDoc, 204, "Deleted")
               /\ UNCHANGED <<nextUser, nextTask>>

DeleteTask(id) ==
    /\ last = Idle
    /\ nreq < MaxRequests
    /\ DeleteTaskHandler(id)

\* ------------------------------------------------------- specification
EmptyCollection == [x \in {} |-> NoDoc]

Init ==
    /\ users = EmptyCollection
    /\ tasks = EmptyCollection
    /\ nextUser = 1
    /\ nextTask = 1
    /\ last = Idle
    /\ allOk = TRUE
    /\ nreq = 0
    /\ running = <<>>

\* the response has gone out; the next request finds only the store
\* (status 0: the handler has not answered yet)
ResponseSent ==
    /\ last # Idle
    /\ last.status # 0
    /\ last' = Idle
    /\ UNCHANGED <<users, tasks, nextUser, nextTask, allOk, nreq, running>>

\* a client sends the Replace request it was just answered 200 for once
\* more, with the same id and body
Reissue ==
    /\ last # Idle
    /\ last.status = 200
    /\ ~last.retry
    /\ nreq < MaxRequests
    /\ \/ last.op = "PutUser" /\ PutUserHandler(last.id, last.body)
       \/ last.op = "PutTask" /\ PutTaskHandler(last.id, last.body)

Next ==
    \/ \E b \in UserBodies : PostUser(b)
    \/ \E id \in UserIds, b \in UserBodies : PutUser(id, b)
    \/ \E id \in UserIds : DeleteUser(id)
    \/ \E b \in TaskBodies : PostTask(b)
    \/ \E id \in TaskIds, b \in TaskBodies : PutTask(id, b)
    \/ \E id \in TaskIds : DeleteTask(id)
    \/ Reissue
    \/ ResponseSent

Spec == Init /\ [][Next]_vars


\* ------------------------------------------------------------- claims
Pending(u) == users[u].pendingTasks

IsCompleted(t) == tasks[t].completed = BoolTrue

\* C1: after any sequence of successful write requests, every Task that is
\* not completed and has a non-empty assignedUser has its id in that User's
\* pendingTasks exactly once.
C1_PendingExactlyOnce ==
    allOk =>
        \A t \in DOMAIN tasks :
            (~IsCompleted(t) /\ tasks[t].assignedUser # 0) =>
                /\ tasks[t].assignedUser \in DOMAIN users
                /\ Count(Pending(tasks[t].assignedUser), t) = 1

\* C2: after any sequence of successful write requests, no User's
\* pendingTasks holds the id of a completed Task.
C2_NoCompletedPending ==
    allOk =>
        \A u \in DOMAIN users : \A t \in Range(Pending(u)) :
            t \in DOMAIN tasks => ~IsCompleted(t)

\* C3: after any sequence of successful write requests, every id in a User's
\* pendingTasks references an existing, non-completed Task assigned to that
\* User.
C3_PendingReferencesOwnOpenTask ==
    allOk =>
        \A u \in DOMAIN users : \A t \in Range(Pending(u)) :
            /\ t \in DOMAIN tasks
            /\ tasks[t].assignedUser = u
            /\ ~IsCompleted(t)

\* the request just answered, and the collections as it found them
OldUsers == last.before.users

OldTasks == last.before.tasks

WasCompleted(t) == OldTasks[t].completed = BoolTrue

\* the request just answered left both collections as it found them
StoreUnchanged == users = OldUsers /\ tasks = OldTasks

\* C4 (as claimed): right after a successful Create Task with assignedUser = U
\* the new Task's id is in U.pendingTasks.
C4_CreatedIsPending ==
    (last.op = "PostTask" /\ last.status = 201 /\ last.body.assignedUser # 0) =>
        Includes(Pending(last.body.assignedUser), last.id)

\* C4 (amended): right after a successful Create Task with assignedUser = U
\* whose completed value is not the string 'true', the new Task's id is in
\* U.pendingTasks; and right after a successful Delete Task of a Task assigned
\* to an existing User U, the id is absent from U.pendingTasks.
C4_RoundTrip ==
    /\ (last.op = "PostTask" /\ last.status = 201
            /\ last.body.assignedUser # 0 /\ last.body.completed # StrTrue) =>
                Includes(Pending(last.body.assignedUser), last.id)
    /\ (last.op = "DeleteTask" /\ last.status = 204
            /\ OldTasks[last.id].assignedUser \in DOMAIN users) =>
                ~Includes(Pending(OldTasks[last.id].assignedUser), last.id)

\* three successful requests: create User 1, create Task 1 assigned to it
\* (which put the id into the list), delete Task 1
C4_Witness ==
    /\ nreq = 3 /\ allOk
    /\ last.op = "DeleteTask" /\ last.id = 1 /\ last.status = 204
    /\ OldTasks[1].assignedUser = 1 /\ ~WasCompleted(1)
    /\ Includes(OldUsers[1].pendingTasks, 1)
    /\ 1 \in DOMAIN users
    /\ ~Includes(Pending(1), 1)

\* C5: a successful Replace Task of a non-completed Task T assigned to User A
\* that keeps assignedUser = A and sets completed to true (boolean or the
\* string 'true') leaves T's id absent from A.pendingTasks and changes no
\* other User's pendingTasks.
C5_CompleteRemovesPending ==
    (last.op = "PutTask" /\ last.status = 200) =>
        LET t == last.id
            A == OldTasks[t].assignedUser
        IN (/\ A \in DOMAIN OldUsers
            /\ ~WasCompleted(t)
            /\ last.body.assignedUser = A
            /\ last.body.completed \in {BoolTrue, StrTrue}) =>
                /\ DOMAIN users = DOMAIN OldUsers
                /\ ~Includes(Pending(A), t)
                /\ \A u \in DOMAIN OldUsers \ {A} :
                        Pending(u) = OldUsers[u].pendingTasks

\* a pending Task was completed in place, with the string form, while
\* another User had a pending Task of their own
C5_Witness ==
    /\ last.op = "PutTask" /\ last.status = 200
    /\ last.body.completed = StrTrue
    /\ ~WasCompleted(last.id)
    /\ OldTasks[last.id].assignedUser \in DOMAIN OldUsers
    /\ last.body.assignedUser = OldTasks[last.id].assignedUser
    /\ Includes(OldUsers[last.body.assignedUser].pendingTasks, last.id)
    /\ IsCompleted(last.id)
    /\ ~Includes(Pending(last.body.assignedUser), last.id)
    /\ \E u \in DOMAIN users : u # last.body.assignedUser /\ Len(Pending(u)) > 0

\* C6: a successful Replace Task of a non-completed Task T assigned to User A
\* that names another existing User B removes T's id from A.pendingTasks and,
\* with completed = false, leaves it in B.pendingTasks exactly once; with
\* completed = true the id ends up in neither list.
C6_Reassign ==
    (last.op = "PutTask" /\ last.status = 200) =>
        LET t == last.id
            A == OldTasks[t].assignedUser
            B == last.body.assignedUser
        IN (/\ A \in DOMAIN OldUsers /\ B \in DOMAIN OldUsers /\ A # B
            /\ ~WasCompleted(t)) =>
                /\ last.body.completed \in {BoolFalse, StrFalse} =>
                    /\ ~Includes(Pending(A), t)
                    /\ Count(Pending(B), t) = 1
                /\ last.body.completed \in {BoolTrue, StrTrue} =>
                    /\ ~Includes(Pending(A), t)
                    /\ ~Includes(Pending(B), t)

\* the body of the Replace User just answered names a completed Task that
\* was not pending for that User
AddsCompletedTask ==
    \E t \in Range(last.body.pendingTasks) :
        /\ ~Includes(OldUsers[last.id].pendingTasks, t)
        /\ t \in DOMAIN OldTasks
        /\ WasCompleted(t)

\* C7: a Replace User whose new pendingTasks holds an id, not in the old
\* pendingTasks, of a completed Task fails with a validation error (400) and
\* leaves the User and every Task as before, whatever else the body adds or
\* drops.
C7_CompletedCannotBecomePending ==
    (/\ last.op = "PutUser"
     /\ last.id \in DOMAIN OldUsers
     /\ last.body.name # "" /\ last.body.email # ""
     /\ AddsCompletedTask) =>
        /\ last.status = 400
        /\ users = OldUsers
        /\ tasks = OldTasks

\* rejected although the same body also adds an open Task or drops a
\* pending one
C7_Witness ==
    /\ last.op = "PutUser" /\ last.status = 400
    /\ last.id \in DOMAIN OldUsers
    /\ AddsCompletedTask
    /\ \/ \E t \in Range(last.body.pendingTasks) :
            /\ t \in DOMAIN OldTasks /\ ~WasCompleted(t)
            /\ ~Includes(OldUsers[last.id].pendingTasks, t)
       \/ \E t \in Range(OldUsers[last.id].pendingTasks) :
            ~Includes(last.body.pendingTasks, t)

\* a Task body with both required fields
HasRequiredFields(b) == b.name # "" /\ b.deadline # ""

\* a Task body names a User that did not exist
NamesMissingUser(b) ==
    b.assignedUser # 0 /\ b.assignedUser \notin DOMAIN OldUsers

\* a Task body names an existing User under another name than the User's
NamesUserWrongly(b) ==
    /\ b.assignedUser \in DOMAIN OldUsers
    /\ b.assignedUserName # OldUsers[b.assignedUser].name

\* a Task body that passes the required-field and cross-entity checks
PassesBodyChecks(b) ==
    /\ HasRequiredFields(b)
    /\ ~NamesMissingUser(b)
    /\ ~NamesUserWrongly(b)
    /\ b.assignedUser = 0 => b.assignedUserName = Unassigned

\* C8: a write request the validator rejects leaves both collections as they
\* were: a Create/Replace Task (with its required fields) naming a missing
\* User answers 404, one naming a User under a wrong name answers 400, a
\* Replace/Delete of a missing User or Task answers 404, and in each case no
\* document is created, modified or deleted.
C8_RejectedLeavesStoreUnchanged ==
    /\ (last.op \in {"PostTask", "PutTask"} /\ HasRequiredFields(last.body)) =>
            /\ NamesMissingUser(last.body) =>
                    (last.status = 404 /\ StoreUnchanged)
            /\ NamesUserWrongly(last.body) =>
                    (last.status = 400 /\ StoreUnchanged)
    /\ (/\ last.op = "PutTask"
        /\ PassesBodyChecks(last.body)
        /\ last.id \notin DOMAIN OldTasks) =>
            (last.status = 404 /\ StoreUnchanged)
    /\ (/\ last.op = "PutUser"
        /\ last.body.name # "" /\ last.body.email # ""
        /\ last.id \notin DOMAIN OldUsers) =>
            (last.status = 404 /\ StoreUnchanged)
    /\ (last.op = "DeleteUser" /\ last.id \notin DOMAIN OldUsers) =>
            (last.status = 404 /\ StoreUnchanged)
    /\ (last.op = "DeleteTask" /\ last.id \notin DOMAIN OldTasks) =>
            (last.status = 404 /\ StoreUnchanged)

\* a Replace Task that would have moved a pending Task to another User was
\* rejected for the wrong name of that User
C8_Witness ==
    /\ last.op = "PutTask" /\ last.status = 400
    /\ HasRequiredFields(last.body)
    /\ NamesUserWrongly(last.body)
    /\ last.id \in DOMAIN OldTasks
    /\ OldTasks[last.id].assignedUser \in DOMAIN OldUsers
    /\ OldTasks[last.id].assignedUser # last.body.assignedUser
    /\ Includes(OldUsers[OldTasks[last.id].assignedUser].pendingTasks, last.id)
    /\ StoreUnchanged

\* C9: a Replace Task addressed to a Task whose stored completed flag is true
\* is rejected and changes neither the Task nor any User; with a body that
\* passes the required-field and cross-entity checks the answer is the
\* "already completed" error.
C9_CompletedIsImmutable ==
    (/\ last.op = "PutTask"
     /\ last.id \in DOMAIN OldTasks
     /\ WasCompleted(last.id)) =>
        /\ last.status >= 400
        /\ tasks = OldTasks
        /\ users = OldUsers
        /\ PassesBodyChecks(last.body) =>
                (last.result = "AlreadyCompleted" /\ last.status = 400)

\* a completed Task was addressed by a body that would have reassigned and
\* reopened it
C9_Witness ==
    /\ last.op = "PutTask" /\ last.result = "AlreadyCompleted"
    /\ last.id \in DOMAIN OldTasks /\ WasCompleted(last.id)
    /\ PassesBodyChecks(last.body)
    /\ last.body.assignedUser \in DOMAIN OldUsers
    /\ last.body.assignedUser # OldTasks[last.id].assignedUser
    /\ last.body.completed = BoolFalse
    /\ StoreUnchanged

\* C10: a Replace Task of an existing, non-completed Task whose assignedUser
\* is empty or absent answers 400 unless assignedUserName is exactly
\* "unassigned" (an absent or empty assignedUserName is rejected too).
C10_UnassignedNameRequired ==
    (/\ last.op = "PutTask"
     /\ last.id \in DOMAIN OldTasks
     /\ ~WasCompleted(last.id)
     /\ HasRequiredFields(last.body)
     /\ last.body.assignedUser = 0
     /\ last.body.assignedUserName # Unassigned) =>
        last.status = 400

\* C11: a successful Create Task whose completed is boolean true or the
\* string 'true' stores completed = true and does not add the id to the
\* assigned User's pendingTasks; boolean false and the string 'false' store
\* completed = false.
C11_BooleanTrueOnCreate ==
    (last.op = "PostTask" /\ last.status = 201) =>
        /\ last.body.completed \in {BoolTrue, StrTrue} =>
            /\ tasks[last.id].completed = BoolTrue
            /\ last.body.assignedUser # 0 =>
                    ~Includes(Pending(last.body.assignedUser), last.id)
        /\ last.body.completed \in {BoolFalse, StrFalse} =>
            tasks[last.id].completed = BoolFalse

\* C12: after any sequence of successful write requests, every Task's
\* assignedUser is empty or the id of a User that exists.
C12_AssignedUserExists ==
    allOk =>
        \A t \in DOMAIN tasks :
            tasks[t].assignedUser = 0 \/ tasks[t].assignedUser \in DOMAIN users

\* TaskSchema: a document read without assignedUserName shows the default
AssignedUserNameAsRead(t) ==
    IF tasks[t].assignedUserName = Absent
    THEN Unassigned
    ELSE tasks[t].assignedUserName

\* C13: after any sequence of successful write requests, every Task whose
\* assignedUser is empty has assignedUserName "unassigned".
C13_UnassignedHasLiteralName ==
    allOk =>
        \A t \in DOMAIN tasks :
            tasks[t].assignedUser = 0 => AssignedUserNameAsRead(t) = Unassigned

\* C14: the creation timestamp of a User or Task keeps the value it got at
\* creation for as long as the entity exists.
C14_CreationTimestampImmutable ==
    /\ \A u \in DOMAIN users : users[u].dateCreated = CreatedNow
    /\ \A t \in DOMAIN tasks : tasks[t].dateCreated = CreatedNow

\* C15: adding a Task id to a User's pendingTasks twice gives the same
\* pendingTasks as adding it once; and a Replace Task or Replace User that
\* was answered 200 and is sent again at once with the same body leaves
\* both collections as the first application left them.
C15_Idempotent ==
    /\ \A u \in UserIds, t \in TaskIds :
            UserAddToSet(UserAddToSet(users, u, t), u, t) = UserAddToSet(users, u, t)
    /\ (last.op \in {"PutTask", "PutUser"} /\ last.retry) => StoreUnchanged

\* a Replace Task that assigned a Task to a User was sent again and answered
\* 200 again, with the Task pending for that User
C15_Witness ==
    /\ last.op = "PutTask" /\ last.retry /\ last.status = 200
    /\ last.body.assignedUser \in DOMAIN users
    /\ Includes(Pending(last.body.assignedUser), last.id)
    /\ last.before.tasks[last.id].assignedUser = last.body.assignedUser
    /\ StoreUnchanged

\* ============================================================ reads
\* The read endpoints over collections larger than the default Task limit.

\* GET /tasks: queryParams.limit = 100 when no limit is sent
DefaultTaskLimit == 100

\* how many documents beyond the default limit the larger collections hold
ExtraDocs == 3

\* numbers of documents in each collection when the reads arrive
CollectionSizes ==
    {0, 1, DefaultTaskLimit, DefaultTaskLimit + ExtraDocs,
     2 * DefaultTaskLimit + ExtraDocs}

LargestCollection == 2 * DefaultTaskLimit + ExtraDocs

\* query-string values
Malformed == "{not json"
WhereUserName == "{\"name\":\"Alice\"}"
WhereTaskCompleted == "{\"completed\":true}"
SortIdDescending == "{\"_id\":-1}"
SelectName == "{\"name\":1}"
CountTrue == "true"
CountOther == "false"

\* JSON.parse(text) throws a SyntaxError
ParseThrows(text) == text = Malformed

\* parseInt of a decimal text
ParseInt(text) == CHOOSE n \in 0..(LargestCollection + 1) : ToString(n) = text

\* req.query of the list reads; skip and limit are sent as decimal numbers
Queries(wheres) ==
    [where : {Absent, Malformed} \cup wheres,
     sort : {Absent, Malformed, SortIdDescending},
     select : {Absent, Malformed, SelectName},
     skip : {Absent, "2"},
     limit : {Absent, "1", ToString(DefaultTaskLimit + 1)},
     count : {Absent, CountTrue, CountOther}]

\* the read specification parseQuery leaves on the query: a clause that is
\* absent or fails to parse is omitted; limit 0 is no limit
ParseQuery(q) ==
    [filter |-> IF q.where = Absent \/ ParseThrows(q.where) THEN Absent ELSE q.where,
     sort |-> IF q.sort = Absent \/ ParseThrows(q.sort) THEN Absent ELSE q.sort,
     select |-> IF q.select = Absent \/ ParseThrows(q.select) THEN Absent ELSE q.select,
     skip |-> IF q.skip = Absent THEN 0 ELSE ParseInt(q.skip),
     limit |-> IF q.limit = Absent THEN 0 ELSE ParseInt(q.limit)]

\* does a document satisfy the filter?
Matches(doc, filter) ==
    CASE filter = Absent -> TRUE
      [] filter = WhereUserName -> doc.name = "Alice"
      [] filter = WhereTaskCompleted -> doc.completed = BoolTrue

IdsInOrder == [i \in 1..LargestCollection |-> i]

Reverse(seq) == [i \in 1..Len(seq) |-> seq[Len(seq) + 1 - i]]

\* the ids of the matching documents, in the order the sort clause asks for
Matching(coll, spec) ==
    LET found == SelectSeq(IdsInOrder,
                    LAMBDA i : i \in DOMAIN coll /\ Matches(coll[i], spec.filter))
    IN IF spec.sort = SortIdDescending THEN Reverse(found) ELSE found

\* skip and limit applied to a result sequence
Page(seq, skip, limit) ==
    LET upTo == IF limit = 0 \/ skip + limit > Len(seq) THEN Len(seq) ELSE skip + limit
    IN SubSeq(seq, skip + 1, upTo)

\* query.exec(): the page of matching documents, projected
Exec(coll, spec) ==
    [ids |-> Page(Matching(coll, spec), spec.skip, spec.limit),
     fields |-> IF spec.select = Absent THEN "all" ELSE spec.select]

\* query.countDocuments(): the count is taken with the query's options,
\* skip and limit among them
CountDocuments(coll, spec) ==
    Len(Page(Matching(coll, spec), spec.skip, spec.limit))

\* the response of a read
Answer(op, id, q, status, data) ==
    /\ last' = [op |-> op, id |-> id, body |-> q, status |-> status,
                result |-> "Read", data |-> data]
    /\ UNCHANGED <<users, tasks, nextUser, nextTask, allOk, nreq, running>>

\* the list handler after the collection and the query parameters are fixed
ListRead(op, coll, q, params) ==
    IF q.count = CountTrue
    THEN Answer(op, 0, q, 200, [count |-> CountDocuments(coll, ParseQuery(params))])
    ELSE Answer(op, 0, q, 200, Exec(coll, ParseQuery(params)))

\* --------------------------------------------------------------- GET /users
GetUsers(q) ==
    /\ last = Idle
    /\ ListRead("GetUsers", users, q, q)

\* --------------------------------------------------------------- GET /tasks
\* (mutant) no default limit
TaskQueryParamsAsSent(q) == q

\* if (!queryParams.limit) queryParams.limit = 100
\* (parseInt reads the number through its decimal text)
TaskQueryParams(q) ==
    IF q.limit = Absent THEN [q EXCEPT !.limit = ToString(DefaultTaskLimit)] ELSE q

GetTasks(q) ==
    /\ last = Idle
    /\ ListRead("GetTasks", tasks, q, TaskQueryParams(q))

\* --------------------------------------- GET /users/:id and GET /tasks/:id
\* select is parsed outside any try block of its own: a SyntaxError reaches
\* the handler's catch and is answered 400
ByIdStatus(coll, id, select) ==
    IF select # Absent /\ ParseThrows(select) THEN 400
    ELSE IF id \notin DOMAIN coll THEN 404
    ELSE 200

ByIdData(coll, id, select) ==
    IF ByIdStatus(coll, id, select) = 200
    THEN [ids |-> <<id>>, fields |-> IF select = Absent THEN "all" ELSE select]
    ELSE NoDoc

GetUserById(id, select) ==
    /\ last = Idle
    /\ Answer("GetUserById", id, [select |-> select],
              ByIdStatus(users, id, select), ByIdData(users, id, select))

GetTaskById(id, select) ==
    /\ last = Idle
    /\ Answer("GetTaskById", id, [select |-> select],
              ByIdStatus(tasks, id, select), ByIdData(tasks, id, select))

\* ------------------------------------------------- reads: specification
\* n Users and n Tasks, created by n successful POSTs each; every second
\* User is named Alice and every second Task is completed
ReadInit ==
    \E n \in CollectionSizes :
        /\ users = [u \in 1..n |->
                        [name |-> IF u % 2 = 0 THEN "Alice" ELSE "Bob",
                         email |-> "u" \o ToString(u) \o "@x.com",
                         pendingTasks |-> <<>>,
                         dateCreated |-> CreatedNow]]
        /\ tasks = [t \in 1..n |->
                        [completed |-> IF t % 2 = 0 THEN BoolTrue ELSE BoolFalse,
                         assignedUser |-> 0,
                         assignedUserName |-> Unassigned,
                         dateCreated |-> CreatedNow]]
        /\ nextUser = n + 1
        /\ nextTask = n + 1
        /\ last = Idle
        /\ allOk = TRUE
        /\ nreq = 0
        /\ running = <<>>

ReadNext ==
    \/ \E q \in Queries({WhereUserName}) : GetUsers(q)
    \/ \E q \in Queries({WhereTaskCompleted}) : GetTasks(q)
    \/ \E id \in {1, LargestCollection + 1}, select \in {Absent, Malformed, SelectName} :
            GetUserById(id, select)
    \/ \E id \in {1, LargestCollection + 1}, select \in {Absent, Malformed, SelectName} :
            GetTaskById(id, select)
    \/ ResponseSent

ReadSpec == ReadInit /\ [][ReadNext]_vars

\* ------------------------------------------------------ reads: claims
ListReads == {"GetUsers", "GetTasks"}

\* the collection a list read was answered from
ReadCollection == IF last.op = "GetUsers" THEN users ELSE tasks

\* number of documents that satisfy the where clause of the read just answered
MatchCount ==
    Cardinality({i \in DOMAIN ReadCollection :
                    Matches(ReadCollection[i], ParseQuery(last.body).filter)})

\* documents left after the read's skip
AfterSkip ==
    IF MatchCount > ParseQuery(last.body).skip
    THEN MatchCount - ParseQuery(last.body).skip
    ELSE 0

\* C16: a Task list read with no limit returns at most 100 Tasks, and 100 of
\* them when more match; a User list read with no limit returns every
\* matching User (every one after the skip, when a skip is sent).
C16_DefaultTaskLimit ==
    (last.op \in ListReads /\ last.body.limit = Absent /\ last.body.count # CountTrue) =>
        /\ last.status = 200
        /\ last.op = "GetTasks" =>
            /\ Len(last.data.ids) <= DefaultTaskLimit
            /\ Len(last.data.ids) =
                    IF AfterSkip > DefaultTaskLimit THEN DefaultTaskLimit ELSE AfterSkip
        /\ last.op = "GetUsers" =>
            /\ Len(last.data.ids) = AfterSkip
            /\ last.body.skip = Absent =>
                    Range(last.data.ids) =
                        {u \in DOMAIN users :
                            Matches(users[u], ParseQuery(last.body).filter)}

\* more than 100 Tasks match and exactly 100 are returned
C16_Witness ==
    /\ last.op = "GetTasks" /\ last.status = 200
    /\ last.body.limit = Absent /\ last.body.count = Absent
    /\ last.body.where = WhereTaskCompleted
    /\ MatchCount > DefaultTaskLimit
    /\ Len(last.data.ids) = DefaultTaskLimit

\* C17: a list read with count="true" returns the number of entities that
\* match the where filter, whatever skip and limit are in effect.
C17_CountIgnoresSkipLimit ==
    (last.op \in ListReads /\ last.body.count = CountTrue) =>
        /\ last.status = 200
        /\ last.data.count = MatchCount

\* C18: a read with a where, sort or select that cannot be parsed succeeds
\* with the clause omitted: a list read answers as it would without the
\* clause, a fetch by id of an existing entity answers 200 with the whole
\* document.
C18_UnparsableNeverFails ==
    /\ (/\ last.op \in ListReads
        /\ Malformed \in {last.body.where, last.body.sort, last.body.select}) =>
            /\ last.status = 200
            /\ last.body.where = Malformed => ParseQuery(last.body).filter = Absent
            /\ last.body.sort = Malformed => ParseQuery(last.body).sort = Absent
            /\ (last.body.select = Malformed /\ last.body.count # CountTrue) =>
                    last.data.fields = "all"
    /\ (/\ last.op = "GetUserById"
        /\ last.body.select = Malformed
        /\ last.id \in DOMAIN users) =>
            (last.status = 200 /\ last.data.fields = "all")
    /\ (/\ last.op = "GetTaskById"
        /\ last.body.select = Malformed
        /\ last.id \in DOMAIN tasks) =>
            (last.status = 200 /\ last.data.fields = "all")

\* ------------------------------------------------ Replace User: claim
\* ids in the supplied pendingTasks that were not in the stored one
AddedIds == Range(last.body.pendingTasks) \ Range(OldUsers[last.id].pendingTasks)

\* ids in the stored pendingTasks that are not in the supplied one
RemovedIds == Range(OldUsers[last.id].pendingTasks) \ Range(last.body.pendingTasks)

\* C19: after a successful Replace User of U with name N, every existing
\* Task added to pendingTasks is assigned to U under the name N, every
\* existing Task removed from it is unassigned with the name "unassigned",
\* every other Task is as before, and U.pendingTasks is the supplied list
\* (empty when none is supplied, so that every Task that was pending is
\* unassigned).
C19_ReplaceUserReassigns ==
    (last.op = "PutUser" /\ last.status = 200) =>
        /\ DOMAIN tasks = DOMAIN OldTasks
        /\ \A t \in AddedIds \cap DOMAIN tasks :
                /\ tasks[t].assignedUser = last.id
                /\ tasks[t].assignedUserName = last.body.name
        /\ \A t \in RemovedIds \cap DOMAIN tasks :
                /\ tasks[t].assignedUser = 0
                /\ tasks[t].assignedUserName = Unassigned
        /\ \A t \in DOMAIN tasks \ (AddedIds \cup RemovedIds) : tasks[t] = OldTasks[t]
        /\ Pending(last.id) = last.body.pendingTasks
        /\ last.body.pendingTasks = <<>> =>
                \A t \in Range(OldUsers[last.id].pendingTasks) \cap DOMAIN tasks :
                    /\ tasks[t].assignedUser = 0
                    /\ tasks[t].assignedUserName = Unassigned

\* a Replace User under a new name took one existing Task and gave up
\* another
C19_Witness ==
    /\ last.op = "PutUser" /\ last.status = 200 /\ ~last.retry
    /\ last.body.name # OldUsers[last.id].name
    /\ AddedIds \cap DOMAIN tasks # {}
    /\ RemovedIds \cap DOMAIN tasks # {}
    /\ \A t \in AddedIds \cap DOMAIN tasks : OldTasks[t].assignedUser # last.id
    /\ \A t \in RemovedIds \cap DOMAIN tasks : OldTasks[t].assignedUser = last.id

\* ===================================================== deletes, step by step
\* The two Delete handlers with their two store calls as separate steps:
\* the primary delete, then the compensating update.  A handler between
\* its two calls has not answered yet (status 0); the second call may fail.

\* the handler has made its first store call and awaits the second
InFlight(op, id, doc) ==
    /\ last' = [op |-> op, id |-> id, body |-> NoDoc, status |-> 0,
                result |-> "InFlight",
                before |-> [users |-> users, tasks |-> tasks],
                retry |-> FALSE,
                after |-> 0,
                first |-> [users |-> users, tasks |-> tasks],
                deleted |-> doc]
    /\ UNCHANGED <<allOk, nreq, running>>

\* the handler in flight answers
Finish(status, result) ==
    /\ last' = [last EXCEPT !.status = status, !.result = result]
    /\ allOk' = (allOk /\ status < 400)
    /\ nreq' = nreq + 1
    /\ UNCHANGED running

\* DELETE /users/:id: const deletedUser = await User.findByIdAndDelete(id)
DeleteUserPrimary(id) ==
    /\ last = Idle
    /\ nreq < MaxRequests
    /\ IF id \notin DOMAIN users
       THEN /\ Respond("DeleteUser", id, NoDoc, 404, "UserNotFound")
            /\ UNCHANGED <<users, tasks, nextUser, nextTask>>
       ELSE /\ users' = Without(users, id)
            /\ InFlight("DeleteUser", id, users[id])
            /\ UNCHANGED <<tasks, nextUser, nextTask>>

\* DELETE /users/:id: await Task.updateMany(...), then the 204
DeleteUserCompensate ==
    /\ last # Idle
    /\ last.op = "DeleteUser" /\ last.status = 0
    /\ tasks' = IF Len(last.deleted.pendingTasks) > 0
                THEN TaskSetAssignment(tasks, last.deleted.pendingTasks, 0, Unassigned)
                ELSE tasks
    /\ Finish(204, "Deleted")
    /\ UNCHANGED <<users, nextUser, nextTask>>

\* DELETE /tasks/:id: const deletedTask = await Task.findByIdAndDelete(id)
DeleteTaskPrimary(id) ==
    /\ last = Idle
    /\ nreq < MaxRequests
    /\ IF id \notin DOMAIN tasks
       THEN /\ Respond("DeleteTask", id, NoDoc, 404, "TaskNotFound")
            /\ UNCHANGED <<users, tasks, nextUser, nextTask>>
       ELSE /\ tasks' = Without(tasks, id)
            /\ InFlight("DeleteTask", id, tasks[id])
            /\ UNCHANGED <<users, nextUser, nextTask>>

\* DELETE /tasks/:id: await User.findByIdAndUpdate(..., $pull), then the 204
DeleteTaskCompensate ==
    /\ last # Idle
    /\ last.op = "DeleteTask" /\ last.status = 0
    /\ users' = IF last.deleted.assignedUser # 0
                THEN UserPull(users, last.deleted.assignedUser, last.id)
                ELSE users
    /\ Finish(204, "Deleted")
    /\ UNCHANGED <<tasks, nextUser, nextTask>>

\* the second store call rejects: the catch block answers 500
DeleteFailsMidway ==
    /\ last # Idle
    /\ last.op \in {"DeleteUser", "DeleteTask"} /\ last.status = 0
    /\ Finish(500, "StorageError")
    /\ UNCHANGED <<users, tasks, nextUser, nextTask>>

\* a client sends the Delete request that was answered 500 once more; this
\* time every store call succeeds
Replay ==
    /\ last # Idle
    /\ last.status = 500
    /\ nreq < MaxRequests
    /\ \/ last.op = "DeleteUser" /\ DeleteUserHandler(last.id)
       \/ last.op = "DeleteTask" /\ DeleteTaskHandler(last.id)

StepNext ==
    \/ \E b \in UserBodies : PostUser(b)
    \/ \E id \in UserIds, b \in UserBodies : PutUser(id, b)
    \/ \E id \in UserIds : DeleteUserPrimary(id)
    \/ DeleteUserCompensate
    \/ \E b \in TaskBodies : PostTask(b)
    \/ \E id \in TaskIds, b \in TaskBodies : PutTask(id, b)
    \/ \E id \in TaskIds : DeleteTaskPrimary(id)
    \/ DeleteTaskCompensate
    \/ DeleteFailsMidway
    \/ Replay
    \/ Reissue
    \/ ResponseSent

StepSpec == Init /\ [][StepNext]_vars

\* C20: while a Delete is between its two store calls, and after a failure
\* between them, the deleted entity is not referenced by the entities the
\* compensating update is there for: no Task of a deleted User's
\* pendingTasks still has that User as assignedUser, and the User a deleted
\* Task was assigned to does not list it.
C20_CompensateBeforeDelete ==
    /\ (/\ last.op = "DeleteUser"
        /\ last.status \in {0, 500}
        /\ last.id \notin DOMAIN users) =>
            \A t \in Range(last.deleted.pendingTasks) \cap DOMAIN tasks :
                tasks[t].assignedUser # last.id
    /\ (/\ last.op = "DeleteTask"
        /\ last.status \in {0, 500}
        /\ last.id \notin DOMAIN tasks
        /\ last.deleted.assignedUser \in DOMAIN users) =>
            ~Includes(Pending(last.deleted.assignedUser), last.id)

\* the association invariants: every id in a User's pendingTasks references
\* an existing non-completed Task assigned to that User, and every
\* non-completed assigned Task is in its User's pendingTasks exactly once
Associated(us, ts) ==
    /\ \A u \in DOMAIN us : \A t \in Range(us[u].pendingTasks) :
            /\ t \in DOMAIN ts
            /\ ts[t].assignedUser = u
            /\ ts[t].completed # BoolTrue
    /\ \A t \in DOMAIN ts :
            (ts[t].completed # BoolTrue /\ ts[t].assignedUser # 0) =>
                /\ ts[t].assignedUser \in DOMAIN us
                /\ Count(us[ts[t].assignedUser].pendingTasks, t) = 1

\* C23: when a Delete whose second store call failed is sent again and every
\* store call succeeds, the collections satisfy the association invariants
\* (provided they did when the request was first sent).
C23_ReplayIsSafe ==
    (/\ last.op \in {"DeleteUser", "DeleteTask"}
     /\ last.retry
     /\ last.after = 500
     /\ Associated(last.first.users, last.first.tasks)) =>
        Associated(users, tasks)

\* ------------------------------------------ Replace Task, Replace User: claims
\* C21: a successful Replace Task that changes a non-completed Task's
\* assignedUser from an existing User U to empty leaves the Task's id absent
\* from U.pendingTasks, whatever completed value the body carries.
C21_UnassignRemovesPending ==
    (last.op = "PutTask" /\ last.status = 200) =>
        LET t == last.id
            U == OldTasks[t].assignedUser
        IN (/\ U \in DOMAIN OldUsers
            /\ ~WasCompleted(t)
            /\ last.body.assignedUser = 0) =>
                ~Includes(Pending(U), t)

\* C22: a Replace User rejected for an email another User has leaves every
\* Task's assignedUser and assignedUserName as before; a Replace Task
\* rejected for a deadline that does not store as a date leaves every
\* User's pendingTasks as before.
C22_ValidationErrorLeavesOppositeCollection ==
    /\ (last.op = "PutUser" /\ last.result = "EmailInUse") =>
            /\ last.status = 400
            /\ DOMAIN tasks = DOMAIN OldTasks
            /\ \A t \in DOMAIN tasks :
                    /\ tasks[t].assignedUser = OldTasks[t].assignedUser
                    /\ tasks[t].assignedUserName = OldTasks[t].assignedUserName
    /\ (last.op = "PutTask" /\ last.result = "InvalidDeadline") =>
            /\ last.status = 400
            /\ DOMAIN users = DOMAIN OldUsers
            /\ \A u \in DOMAIN users : Pending(u) = OldUsers[u].pendingTasks

\* C26: a stored Task with completed = true still has completed = true after
\* any request, for as long as the Task exists.
C26_CompletedIsMonotonic ==
    (last.op \in {"PostUser", "PutUser", "DeleteUser",
                  "PostTask", "PutTask", "DeleteTask"}) =>
        \A t \in DOMAIN OldTasks \cap DOMAIN tasks :
            WasCompleted(t) => IsCompleted(t)

\* a successful Replace User or Delete User changed the assignment of a
\* completed Task, which stayed completed
C26_Witness ==
    /\ last.op \in {"PutUser", "DeleteUser"} /\ last.status < 400
    /\ \E t \in DOMAIN OldTasks \cap DOMAIN tasks :
            /\ WasCompleted(t)
            /\ tasks[t].assignedUser # OldTasks[t].assignedUser
            /\ IsCompleted(t)

\* ============================================ restricted request sequences
\* POST /users bodies that create the User with an empty pendingTasks
EmptyListBodies == {b \in UserBodies : b.pendingTasks = <<>>}

\* every User is created with an empty pendingTasks list
CreateEmptyNext ==
    \/ \E b \in EmptyListBodies : PostUser(b)
    \/ \E id \in UserIds, b \in UserBodies : PutUser(id, b)
    \/ \E id \in UserIds : DeleteUser(id)
    \/ \E b \in TaskBodies : PostTask(b)
    \/ \E id \in TaskIds, b \in TaskBodies : PutTask(id, b)
    \/ \E id \in TaskIds : DeleteTask(id)
    \/ Reissue
    \/ ResponseSent

CreateEmptySpec == Init /\ [][CreateEmptyNext]_vars

\* C27: with every User created with an empty pendingTasks list, after any
\* sequence of successful write requests no Task id is in the pendingTasks
\* of two distinct Users.
C27_NoSharedPending ==
    allOk =>
        \A a, b \in DOMAIN users :
            a # b => Range(Pending(a)) \cap Range(Pending(b)) = {}

\* PUT /users/:id bodies that re-supply the User's current pendingTasks
ResupplyBodies(id) ==
    {b \in UserBodies : id \in DOMAIN users => b.pendingTasks = users[id].pendingTasks}

\* POST /tasks and PUT /tasks/:id bodies whose completed is a boolean or one
\* of the strings 'true' / 'false'
BooleanCompletedBodies == {b \in TaskBodies : b.completed # Undefined}

\* every User is created with an empty pendingTasks list, every Replace User
\* re-supplies the current list, every Task body carries a boolean or
\* 'true' / 'false' in completed
DisciplinedNext ==
    \/ \E b \in EmptyListBodies : PostUser(b)
    \/ \E id \in UserIds : \E b \in ResupplyBodies(id) : PutUser(id, b)
    \/ \E id \in UserIds : DeleteUser(id)
    \/ \E b \in BooleanCompletedBodies : PostTask(b)
    \/ \E id \in TaskIds, b \in BooleanCompletedBodies : PutTask(id, b)
    \/ \E id \in TaskIds : DeleteTask(id)
    \/ Reissue
    \/ ResponseSent

DisciplinedSpec == Init /\ [][DisciplinedNext]_vars

\* C28: under those restrictions, after any sequence of successful requests
\* the ids in each existing User's pendingTasks are exactly the existing
\* Tasks assigned to that User with completed = false, each id once.
C28_PendingIsExactlyOpenAssigned ==
    allOk =>
        \A u \in DOMAIN users :
            /\ Range(Pending(u)) =
                    {t \in DOMAIN tasks :
                        tasks[t].assignedUser = u /\ tasks[t].completed = BoolFalse}
            /\ \A t \in Range(Pending(u)) : Count(Pending(u), t) = 1

\* a pending Task was moved from one User to another
C28_Witness ==
    /\ allOk
    /\ last.op = "PutTask" /\ last.status = 200
    /\ OldTasks[last.id].assignedUser \in DOMAIN users
    /\ last.body.assignedUser \in DOMAIN users
    /\ last.body.assignedUser # OldTasks[last.id].assignedUser
    /\ Includes(OldUsers[OldTasks[last.id].assignedUser].pendingTasks, last.id)
    /\ Includes(Pending(last.body.assignedUser), last.id)
    /\ ~Includes(Pending(OldTasks[last.id].assignedUser), last.id)


\* ------------------------------------------ two requests in flight at once
\* A handler runs until its next await, so the handlers of two requests
\* interleave at their store calls.  running holds the two requests: their
\* position (pc), what they have read so far, and the status they were
\* answered with.

\* the User both requests are about, and the list it may hold beforehand
RaceUser == 1
PreviousLists == {<<>>, <<1>>}

RaceStore(previous) ==
    [users |-> (1 :> [name |-> "Alice", email |-> "a@x.com",
                      pendingTasks |-> previous, dateCreated |-> CreatedNow])
               @@ (2 :> [name |-> "Bob", email |-> "b@x.com",
                         pendingTasks |-> <<>>, dateCreated |-> CreatedNow]),
     tasks |-> (1 :> [completed |-> BoolFalse,
                      assignedUser |-> IF previous = <<>> THEN 0 ELSE RaceUser,
                      assignedUserName |-> IF previous = <<>> THEN Unassigned
                                           ELSE "Alice",
                      dateCreated |-> CreatedNow])]

\* POST /tasks bodies of the two requests: name and deadline present,
\* assigned to one of the two Users
RaceTaskBodies ==
    [name : {"task"}, deadline : {NumericDeadline},
     completed : {Undefined, StrTrue},
     assignedUser : {1, 2},
     assignedUserName : {"Alice"},
     dateCreated : {Absent}]

\* PUT /users/:id bodies: of RaceUser, keeping or clearing the list
RaceUserBodies ==
    [name : {"Alice"}, email : {"a@x.com", "b@x.com"},
     pendingTasks : PreviousLists]

Arrived(op, id, b, store) ==
    [op |-> op, id |-> id, body |-> b, pc |-> "start", status |-> 0,
     userName |-> Unassigned, oldTasks |-> <<>>, dropped |-> {},
     before |-> store]

Moved(s, pc) == running' = [running EXCEPT ![s].pc = pc]

Answered(s, status) ==
    running' = [running EXCEPT ![s].pc = "answered", ![s].status = status]

\* POST /tasks up to and including User.findById
PostTaskCheck(s) ==
    LET c == running[s]
        b == c.body
    IN /\ c.op = "PostTask"
       /\ c.pc = "start"
       /\ IF b.name = "" \/ b.deadline = ""
          THEN Answered(s, 400)
          ELSE IF CheckAssignedUser(users, b) # "pass"
          THEN Answered(s, CheckStatus(CheckAssignedUser(users, b)))
          ELSE running' = [running EXCEPT
                              ![s].pc = "checked",
                              ![s].userName = IF b.assignedUser # 0
                                              THEN users[b.assignedUser].name
                                              ELSE Unassigned]
       /\ UNCHANGED <<users, tasks, nextUser, nextTask, last, allOk, nreq>>

\* newTask.save()
PostTaskSave(s) ==
    LET c == running[s]
        b == c.body
    IN /\ c.op = "PostTask"
       /\ c.pc = "checked"
       /\ IF ~DeadlineStoresOnCreate(b.deadline)
          THEN /\ Answered(s, 400)
               /\ UNCHANGED <<tasks, nextTask>>
          ELSE /\ tasks' = With(tasks, nextTask,
                                [completed |-> CompletedOnCreate(b.completed),
                                 assignedUser |-> b.assignedUser,
                                 assignedUserName |-> c.userName,
                                 dateCreated |-> CreatedNow])
               /\ nextTask' = nextTask + 1
               /\ running' = [running EXCEPT ![s].pc = "saved",
                                             ![s].id = nextTask]
       /\ UNCHANGED <<users, nextUser, last, allOk, nreq>>

\* (mutant) the list is written back from the copy of the User the request
\* found when it arrived
PendingAddToSetFromCopy(us, c) ==
    LET u == c.body.assignedUser
    IN [us EXCEPT ![u].pendingTasks =
            AddToSet(c.before.users[u].pendingTasks, c.id)]

\* User.findByIdAndUpdate(savedTask.assignedUser, {$addToSet: ...}): one
\* store call, applied to the list as the store holds it
PendingAddToSet(us, c) == UserAddToSet(us, c.body.assignedUser, c.id)

\* the $addToSet, if any, and the 201
PostTaskAdd(s) ==
    LET c == running[s]
        savedTask == tasks[c.id]
    IN /\ c.op = "PostTask"
       /\ c.pc = "saved"
       /\ users' = IF savedTask.assignedUser # 0 /\ ~Truthy(savedTask.completed)
                   THEN PendingAddToSet(users, c)
                   ELSE users
       /\ Answered(s, 201)
       /\ UNCHANGED <<tasks, nextUser, nextTask, last, allOk, nreq>>

\* PUT /users/:id up to and including User.findById(...).lean()
PutUserRead(s) ==
    LET c == running[s]
        b == c.body
    IN /\ c.op = "PutUser"
       /\ c.pc = "start"
       /\ IF b.name = "" \/ b.email = ""
          THEN Answered(s, 400)
          ELSE IF c.id \notin DOMAIN users
          THEN Answered(s, 404)
          ELSE running' = [running EXCEPT
                              ![s].pc = "read",
                              ![s].oldTasks = users[c.id].pendingTasks]
       /\ UNCHANGED <<users, tasks, nextUser, nextTask, last, allOk, nreq>>

\* Task.find({_id: {$in: addedTasks}, completed: true})
PutUserFindCompleted(s) ==
    LET c == running[s]
        addedTasks == AddedTasks(c.body.pendingTasks, c.oldTasks)
    IN /\ c.op = "PutUser"
       /\ c.pc = "read"
       /\ IF Len(addedTasks) > 0 /\ CompletedAmong(tasks, addedTasks) # {}
          THEN Answered(s, 400)
          ELSE Moved(s, "found")
       /\ UNCHANGED <<users, tasks, nextUser, nextTask, last, allOk, nreq>>

\* Task.updateMany over addedTasks
PutUserAssign(s) ==
    LET c == running[s]
        addedTasks == AddedTasks(c.body.pendingTasks, c.oldTasks)
    IN /\ c.op = "PutUser"
       /\ c.pc = "found"
       /\ tasks' = IF Len(addedTasks) > 0
                   THEN TaskSetAssignment(tasks, addedTasks, c.id, c.body.name)
                   ELSE tasks
       /\ Moved(s, "assigned")
       /\ UNCHANGED <<users, nextUser, nextTask, last, allOk, nreq>>

\* Task.updateMany over removedTasks
PutUserUnassign(s) ==
    LET c == running[s]
        removedTasks == RemovedTasks(c.body.pendingTasks, c.oldTasks)
    IN /\ c.op = "PutUser"
       /\ c.pc = "assigned"
       /\ tasks' = IF Len(removedTasks) > 0
                   THEN TaskSetAssignment(tasks, removedTasks, 0, Unassigned)
                   ELSE tasks
       /\ Moved(s, "unassigned")
       /\ UNCHANGED <<users, nextUser, nextTask, last, allOk, nreq>>

\* (mutant) the replacement keeps the ids the list gained since it was read
OverwriteKeepsUnseen(us, c) ==
    [us EXCEPT ![c.id] =
        [name |-> c.body.name,
         email |-> NormalizeEmail(c.body.email),
         pendingTasks |-> c.body.pendingTasks
                            \o FilterNotIn(FilterNotIn(us[c.id].pendingTasks,
                                                       c.oldTasks),
                                           c.body.pendingTasks),
         dateCreated |-> Absent]]

\* User.findByIdAndUpdate(id, replacementData, {overwrite: true})
Overwrite(us, c) ==
    [us EXCEPT ![c.id] =
        [name |-> c.body.name,
         email |-> NormalizeEmail(c.body.email),
         pendingTasks |-> c.body.pendingTasks,
         dateCreated |-> Absent]]

\* the replacement and the 200; dropped records the ids the stored list held
\* at that moment and the replacement does not
PutUserReplace(s) ==
    LET c == running[s]
    IN /\ c.op = "PutUser"
       /\ c.pc = "unassigned"
       /\ IF \E u \in DOMAIN users \ {c.id} :
                users[u].email = NormalizeEmail(c.body.email)
          THEN /\ Answered(s, 400)
               /\ UNCHANGED users
          ELSE /\ users' = Overwrite(users, c)
               /\ running' = [running EXCEPT
                                 ![s].pc = "answered",
                                 ![s].status = 200,
                                 ![s].dropped =
                                     Range(users[c.id].pendingTasks)
                                         \ Range(c.body.pendingTasks)]
       /\ UNCHANGED <<tasks, nextUser, nextTask, last, allOk, nreq>>

\* two requests arrive together: a Create Task, and either another Create
\* Task or a Replace User of RaceUser
RaceInit ==
    \E previous \in PreviousLists :
        LET store == RaceStore(previous)
        IN /\ users = store.users
           /\ tasks = store.tasks
           /\ nextUser = 3
           /\ nextTask = 2
           /\ last = Idle
           /\ allOk = TRUE
           /\ nreq = 0
           /\ \E b1 \in RaceTaskBodies :
                \/ \E b2 \in RaceTaskBodies :
                     running = <<Arrived("PostTask", 0, b1, store),
                                 Arrived("PostTask", 0, b2, store)>>
                \/ \E b2 \in RaceUserBodies :
                     running = <<Arrived("PostTask", 0, b1, store),
                                 Arrived("PutUser", RaceUser, b2, store)>>

RaceNext ==
    \E s \in {1, 2} :
        \/ PostTaskCheck(s)
        \/ PostTaskSave(s)
        \/ PostTaskAdd(s)
        \/ PutUserRead(s)
        \/ PutUserFindCompleted(s)
        \/ PutUserAssign(s)
        \/ PutUserUnassign(s)
        \/ PutUserReplace(s)

RaceSpec == RaceInit /\ [][RaceNext]_vars

\* both requests have been answered, a Create Task with 201 and a Replace
\* User with 200, and the created Task is stored non-completed, assigned to
\* the replaced User
CreateRacedReplace ==
    /\ running[1].op = "PostTask" /\ running[1].status = 201
    /\ running[2].op = "PutUser" /\ running[2].status = 200
    /\ tasks[running[1].id].assignedUser = running[2].id
    /\ tasks[running[1].id].completed # BoolTrue

\* C24: a Create Task assigned to U interleaved with a Replace User of U: once
\* both are answered successfully and the new Task is non-completed and
\* assigned to U, its id is missing from U's pendingTasks exactly when the
\* replacement overwrote a list that already held it (the $addToSet fell
\* between the handler's read and its overwrite); such an interleaving exists.
C24_OverwriteLosesCreatedTask ==
    CreateRacedReplace =>
        (~Includes(Pending(running[2].id), running[1].id)
            <=> running[1].id \in running[2].dropped)

\* the interleaving: the list was read before the $addToSet and overwritten
\* after it, both requests succeeded, and the Task is missing from the list
C24_Witness ==
    /\ CreateRacedReplace
    /\ running[1].id \in running[2].dropped
    /\ ~Includes(running[2].oldTasks, running[1].id)
    /\ ~Includes(Pending(running[2].id), running[1].id)

\* both requests are Create Tasks answered 201, for the same User, and both
\* Tasks are stored non-completed
TwoCreatesForOneUser ==
    /\ running[1].op = "PostTask" /\ running[1].status = 201
    /\ running[2].op = "PostTask" /\ running[2].status = 201
    /\ running[1].body.assignedUser = running[2].body.assignedUser
    /\ tasks[running[1].id].completed # BoolTrue
    /\ tasks[running[2].id].completed # BoolTrue

\* C25: however two Create Tasks for the same User interleave, once both
\* succeeded the User's pendingTasks holds both new ids, each exactly once,
\* in addition to what it held before.
C25_ConcurrentCreatesBothPending ==
    TwoCreatesForOneUser =>
        LET u == running[1].body.assignedUser
            created == <<running[1].id, running[2].id>>
        IN /\ Count(Pending(u), running[1].id) = 1
           /\ Count(Pending(u), running[2].id) = 1
           /\ FilterNotIn(Pending(u), created)
                = running[1].before.users[u].pendingTasks

\* the two requests overlapped (the second one saved its Task before the
\* first one's $addToSet) and the list held a Task beforehand
C25_Witness ==
    /\ TwoCreatesForOneUser
    /\ running[1].id > running[2].id
    /\ running[1].before.users[running[1].body.assignedUser].pendingTasks # <<>>

====
